---- MODULE Spec2Model ----
(***************************************************************************)
(* Model of the reranking core of hybrid-product-search:                   *)
(*   reranker/services/reranker.py           Reranker                      *)
(*   reranker/services/feature_extractor.py  FeatureExtractor              *)
(*   reranker/services/retriever.py          MockRetriever                 *)
(*   reranker/web/api/rerank/schema.py       Candidate                     *)
(*                                                                         *)
(* Numbers.  The code computes in IEEE doubles.  The model computes in     *)
(* fixed point: every feature value and every score is an integer number   *)
(* of units of 10^-ScoreDigits (1.0 is SCALE), and a normalized weight is  *)
(* the exact fraction <<w, total>>.  math.log is tabulated at the same     *)
(* resolution for the arguments the bounded inputs reach.  Weights are     *)
(* integers (tenths); ratings are tenths; prices are whole units.          *)
(*                                                                         *)
(* Text.  A text is a sequence of words and whitespace marks " ";          *)
(* str.lower() is the table Lower and str.split() drops the marks.         *)
(*                                                                         *)
(* Objects.  The caller's list `candidates` holds the Candidate objects;   *)
(* an object's identity is its position in that list, and the list that    *)
(* rerank returns is a sequence of such positions (references to the same  *)
(* objects, as scored_candidates is in the code).                          *)
(*                                                                         *)
(* Specifications.  Spec: a caller builds a fresh list and ranks it once   *)
(* (as the tests do).  SpecReuse: a caller keeps its list and ranks it     *)
(* again, so that a call meets the scores of an earlier call.              *)
(* SpecConcurrent: two calls run step by step on one list of objects.      *)
(* SpecEndpoint: requests to rerank_candidates.  The other specifications  *)
(* apply one helper function to inputs drawn from bounded sets.            *)
(***************************************************************************)
EXTENDS Integers, Sequences, FiniteSets, TLC

VARIABLES
    default_weights,   \* Reranker.default_weights
    candidates,        \* the caller's list of Candidate objects
    call,              \* the last rerank call: its arguments, locals and outcome
    workers,           \* the rerank calls that run concurrently, each with
                       \* its position in the code and its locals
    endpoint,          \* the last request to rerank_candidates and its outcome
    probe              \* the last application of a helper function on its
                       \* own: its name, its arguments and its result

vars == <<default_weights, candidates, call, workers, endpoint, probe>>

(***************************************************************************)
(* Bounds of the model                                                     *)
(***************************************************************************)
\* longest candidate list a caller builds
MaxBatch == 3
\* longest list of scores handed to _normalize_scores on its own
MaxScores == 3
\* largest corpus size for which the idf is tabulated
MaxCorpus == 6

(***************************************************************************)
(* Program constants                                                       *)
(***************************************************************************)
\* round(score, 4)
ScoreDigits == 4
\* 1.0 in fixed point
SCALE == 10 ^ ScoreDigits
\* k1 = 1.5 as K1Num / K1Den
K1Num == 3
K1Den == 2
\* b = 0.75 as BNum / BDen
BNum == 3
BDen == 4
\* a corpus below this size takes the overlap fallback
MinCorpus == 2
max_price == 1000
max_reviews == 10000
\* rating / 5.0
MaxRating == 5

(***************************************************************************)
(* Optional values: None, or a present value v held as <<v>>               *)
(***************************************************************************)
None == <<>>
Some(v) == <<v>>

(***************************************************************************)
(* math.log at fixed point: round(ln(n) * SCALE)                           *)
(***************************************************************************)
log(n) ==
    CASE n = 1 -> 0
      [] n = 2 -> 6931
      [] n = 3 -> 10986
      [] n = 4 -> 13863
      [] n = 5 -> 16094
      [] n = 6 -> 17918
      [] n = 7 -> 19459
      [] n = 8 -> 20794
      [] n = 9 -> 21972
      [] n = 10 -> 23026
      [] n = 11 -> 23979
      [] n = 12 -> 24849
      [] n = 13 -> 25649
      [] n = 14 -> 26391
      [] n = 15 -> 27081
      [] n = 16 -> 27726
      [] n = 51 -> 39318
      [] n = 201 -> 53033
      [] n = 501 -> 62166
      [] n = 1001 -> 69088
      [] n = 2001 -> 76014
      [] n = 10001 -> 92104
      [] n = 20001 -> 99035

\* math.log(num / den) for a fraction of positive integers
logFrac(num, den) == log(num) - log(den)

(***************************************************************************)
(* Text                                                                    *)
(***************************************************************************)
Space == " "

\* str.lower() on one word
Lower(w) ==
    CASE w = "Wireless" -> "wireless"
      [] w = "Headphones" -> "headphones"
      [] w = "Cheap" -> "cheap"
      [] w = "Earbuds" -> "earbuds"
      [] w = "Studio" -> "studio"
      [] OTHER -> w

RECURSIVE tokenize(_)
\* text.lower().split()
tokenize(text) ==
    IF text = <<>> THEN <<>>
    ELSE IF Head(text) = Space THEN tokenize(Tail(text))
    ELSE <<Lower(Head(text))>> \o tokenize(Tail(text))

\* set(seq)
ToSet(seq) == {seq[i] : i \in 1..Len(seq)}

\* f"{candidate.title} {candidate.description}"
doc_text(candidate) == candidate.title \o <<Space>> \o candidate.description

\* _compute_term_frequency(terms)[term], 0 when the term is no key
compute_term_frequency(terms, term) ==
    Cardinality({i \in 1..Len(terms) : terms[i] = term})

RECURSIVE SumSeq(_)
\* sum(...) over a list
SumSeq(s) == IF s = <<>> THEN 0 ELSE Head(s) + SumSeq(Tail(s))

(***************************************************************************)
(* FeatureExtractor                                                        *)
(***************************************************************************)
\* doc_freq[term] of _compute_idf: the corpus documents holding the term
doc_freq(term, all_candidates) ==
    Cardinality({i \in 1..Len(all_candidates) :
                    term \in ToSet(tokenize(doc_text(all_candidates[i])))})

\* faulty variant: the fraction upside down
idf_value_inverted(n_candidates, df) ==
    LET num == 2 * (n_candidates - df) + 1
        den == 2 * df + 1
    IN  logFrac(den + num, num)

\* faulty variant: the classic idf, without the + 1
idf_value_without_one(n_candidates, df) ==
    LET num == 2 * (n_candidates - df) + 1
        den == 2 * df + 1
    IN  logFrac(num, den)

\* math.log((n_candidates - df + 0.5) / (df + 0.5) + 1)
idf_value(n_candidates, df) ==
    LET num == 2 * (n_candidates - df) + 1      \* (n - df + 0.5) in halves
        den == 2 * df + 1                       \* (df + 0.5) in halves
    IN  logFrac(num + den, den)

\* idf[term] of _compute_idf
compute_idf(term, all_candidates) ==
    idf_value(Len(all_candidates), doc_freq(term, all_candidates))

\* _compute_idf: the dict idf, one entry per query term
idf_dict(query_terms, all_candidates) ==
    [term \in query_terms |-> compute_idf(term, all_candidates)]

\* one term's share of the BM25 sum:
\* idf * (tf * (k1 + 1)) / (tf + k1 * (1 - b + b * (doc_len / avgdl))),
\* with avgdl = total / n
bm25_term(idf_val, tf, doc_len, total, n) ==
    LET numerator   == tf * (K1Num + K1Den) * BDen * total
        denominator == tf * K1Den * BDen * total
                       + K1Num * ((BDen - BNum) * total + BNum * doc_len * n)
    IN  (idf_val * numerator) \div denominator

\* faulty variant: a query without terms matches every document in full
compute_text_match_vacuous(candidate, query) ==
    LET query_terms == ToSet(tokenize(query))
        title_terms == ToSet(tokenize(candidate.title))
        desc_terms  == ToSet(tokenize(candidate.description))
        all_terms   == title_terms \cup desc_terms
    IN  IF all_terms = {} THEN 0
        ELSE IF query_terms = {} THEN SCALE
        ELSE (Cardinality(query_terms \cap all_terms) * SCALE)
                 \div Cardinality(query_terms)

\* faulty variant: the overlap is divided by the number of query tokens,
\* repeats included
compute_text_match_per_token(candidate, query) ==
    LET query_terms == ToSet(tokenize(query))
        title_terms == ToSet(tokenize(candidate.title))
        desc_terms  == ToSet(tokenize(candidate.description))
        all_terms   == title_terms \cup desc_terms
    IN  IF query_terms = {} \/ all_terms = {}
        THEN 0
        ELSE (Cardinality(query_terms \cap all_terms) * SCALE)
                 \div Len(tokenize(query))

\* _compute_text_match
compute_text_match(candidate, query) ==
    LET query_terms == ToSet(tokenize(query))
        title_terms == ToSet(tokenize(candidate.title))
        desc_terms  == ToSet(tokenize(candidate.description))
        all_terms   == title_terms \cup desc_terms
    IN  IF query_terms = {} \/ all_terms = {}
        THEN 0
        ELSE (Cardinality(query_terms \cap all_terms) * SCALE)
                 \div Cardinality(query_terms)

RECURSIVE Corpus(_)
\* corpus: the tokenized document of every candidate
Corpus(all_candidates) ==
    IF all_candidates = <<>> THEN <<>>
    ELSE <<tokenize(doc_text(Head(all_candidates)))>>
             \o Corpus(Tail(all_candidates))

RECURSIVE TotalLen(_)
\* sum(len(doc) for doc in corpus)
TotalLen(corpus) ==
    IF corpus = <<>> THEN 0 ELSE Len(Head(corpus)) + TotalLen(Tail(corpus))

RECURSIVE Bm25Sum(_, _, _, _)
\* the loop over query_terms (a list: a repeated term counts again)
Bm25Sum(query_terms, doc_terms, total, all_candidates) ==
    IF query_terms = <<>> THEN 0
    ELSE LET term == Head(query_terms)
             tf   == compute_term_frequency(doc_terms, term)
             rest == Bm25Sum(Tail(query_terms), doc_terms, total,
                             all_candidates)
         IN  IF tf > 0
             THEN bm25_term(compute_idf(term, all_candidates), tf,
                            Len(doc_terms), total, Len(all_candidates)) + rest
             ELSE rest

\* _compute_bm25; all_candidates is None or Some(list)
compute_bm25(candidate, query, all_candidates) ==
    IF all_candidates = None \/ Len(all_candidates[1]) < MinCorpus
    THEN compute_text_match(candidate, query)
    ELSE
        LET query_terms == tokenize(query)
            total       == TotalLen(Corpus(all_candidates[1]))
            doc_terms   == tokenize(doc_text(candidate))
        IN  IF query_terms = <<>> THEN 0
            ELSE IF Len(doc_terms) = 0 THEN 0
            ELSE Bm25Sum(query_terms, doc_terms, total, all_candidates[1])

\* faulty variant: the price score is not clamped to [0, 1]
normalize_price_unclamped(price) ==
    IF price <= 0 THEN SCALE
    ELSE SCALE - (log(price + 1) * SCALE) \div log(max_price + 1)

\* overlap / len(query_terms) divides by zero (line 157, behind the test
\* of line 153)
text_match_raises(candidate, query) ==
    LET query_terms == ToSet(tokenize(query))
        title_terms == ToSet(tokenize(candidate.title))
        desc_terms  == ToSet(tokenize(candidate.description))
        all_terms   == title_terms \cup desc_terms
    IN  IF query_terms = {} \/ all_terms = {} THEN FALSE
        ELSE Cardinality(query_terms) = 0

\* _compute_bm25 divides by zero: by len(corpus) for avgdl (line 111), or
\* by avgdl for a term of the document (line 134)
bm25_raises(candidate, query, all_candidates) ==
    IF all_candidates = None \/ Len(all_candidates[1]) < MinCorpus
    THEN text_match_raises(candidate, query)
    ELSE
        LET query_terms == tokenize(query)
            corpus      == Corpus(all_candidates[1])
            doc_terms   == tokenize(doc_text(candidate))
        IN  IF query_terms = <<>> THEN FALSE
            ELSE IF Len(corpus) = 0 THEN TRUE
            ELSE IF Len(doc_terms) = 0 THEN FALSE
            ELSE /\ TotalLen(corpus) = 0
                 /\ \E i \in 1..Len(query_terms) :
                       compute_term_frequency(doc_terms, query_terms[i]) > 0

\* _normalize_price
normalize_price(price) ==
    IF price <= 0 THEN SCALE
    ELSE LET normalized ==
                 SCALE - (log(price + 1) * SCALE) \div log(max_price + 1)
         IN  IF normalized < 0 THEN 0
             ELSE IF normalized > SCALE THEN SCALE ELSE normalized

\* _normalize_rating; the model holds a rating in tenths
normalize_rating(rating) == (rating * SCALE) \div (MaxRating * 10)

\* _normalize_popularity
normalize_popularity(num_reviews) ==
    IF num_reviews <= 0 THEN 0
    ELSE LET normalized ==
                 (log(num_reviews + 1) * SCALE) \div log(max_reviews + 1)
         IN  IF normalized > SCALE THEN SCALE ELSE normalized

\* extract_features
extract_features(candidate, query, all_candidates) ==
    [text_match |-> compute_bm25(candidate, query, all_candidates),
     price      |-> normalize_price(candidate.price),
     rating     |-> normalize_rating(candidate.rating),
     popularity |-> normalize_popularity(candidate.num_reviews)]

(***************************************************************************)
(* Reranker                                                                *)
(***************************************************************************)
\* the default map of Reranker.__init__ when none (or an empty one) is given
BuiltinWeights ==
    [text_match |-> 4, price |-> 2, rating |-> 2, popularity |-> 2]

\* settings.rerank_default_weights, which get_reranker passes
SettingsWeights ==
    [text_match |-> 6, price |-> 0, rating |-> 2, popularity |-> 2]

\* Reranker.__init__: default_weights or {...}
ReRankerInit(arg) ==
    IF arg = None \/ DOMAIN arg[1] = {} THEN BuiltinWeights ELSE arg[1]

RECURSIVE SumOver(_, _)
\* sum(f[k] for k in keys)
SumOver(f, keys) ==
    IF keys = {} THEN 0
    ELSE LET k == CHOOSE x \in keys : TRUE
         IN  f[k] + SumOver(f, keys \ {k})

\* sum(active_weights.values())
SumValues(m) == SumOver(m, DOMAIN m)

\* active_weights = weights or self.default_weights
ActiveWeights(weights, defaults) ==
    IF weights = None \/ DOMAIN weights[1] = {} THEN defaults ELSE weights[1]

\* {k: v / total_weight ...}: raises ZeroDivisionError at the first item
\* when the total is zero
NormalizeRaises(active_weights) ==
    DOMAIN active_weights # {} /\ SumValues(active_weights) = 0

\* faulty variant: the weights are divided by their number, not their sum
NormalizedWeightsByCount(active_weights) ==
    [k \in DOMAIN active_weights |->
        <<active_weights[k], Cardinality(DOMAIN active_weights)>>]

\* normalized_weights: each weight as the fraction <<v, total_weight>>
NormalizedWeights(active_weights) ==
    [k \in DOMAIN active_weights |->
        <<active_weights[k], SumValues(active_weights)>>]

\* min(scores), max(scores)
MinOf(scores) ==
    CHOOSE m \in ToSet(scores) : \A x \in ToSet(scores) : m <= x
MaxOf(scores) ==
    CHOOSE m \in ToSet(scores) : \A x \in ToSet(scores) : m >= x

RECURSIVE MinMaxEqualGivesZero(_, _, _)
\* faulty variant: equal scores normalize to 0.0
MinMaxEqualGivesZero(scores, min_score, max_score) ==
    IF scores = <<>> THEN <<>>
    ELSE << IF max_score = min_score
            THEN 0
            ELSE ((Head(scores) - min_score) * SCALE)
                     \div (max_score - min_score) >>
         \o MinMaxEqualGivesZero(Tail(scores), min_score, max_score)

RECURSIVE MinMax(_, _, _)
\* [(score - min_score) / (max_score - min_score) for score in scores],
\* or [0.5] * len(scores) when the two are equal
MinMax(scores, min_score, max_score) ==
    IF scores = <<>> THEN <<>>
    ELSE << IF max_score = min_score
            THEN SCALE \div 2
            ELSE ((Head(scores) - min_score) * SCALE)
                     \div (max_score - min_score) >>
         \o MinMax(Tail(scores), min_score, max_score)

\* faulty variant: no test for equal scores before the division
normalize_scores_raises_on_equal(scores) ==
    scores # <<>> /\ MaxOf(scores) = MinOf(scores)

\* _normalize_scores divides by zero (line 91, behind the test of line 88)
normalize_scores_raises(scores) ==
    IF scores = <<>> THEN FALSE
    ELSE IF MaxOf(scores) = MinOf(scores) THEN FALSE
    ELSE MaxOf(scores) - MinOf(scores) = 0

\* faulty variant: equal scores are returned as they are
normalize_scores_keeps_equal(scores) ==
    IF scores = <<>> THEN <<>>
    ELSE IF MaxOf(scores) = MinOf(scores) THEN scores
    ELSE MinMax(scores, MinOf(scores), MaxOf(scores))

\* _normalize_scores
normalize_scores(scores) ==
    IF scores = <<>> THEN <<>>
    ELSE MinMax(scores, MinOf(scores), MaxOf(scores))

RECURSIVE ExtractAll(_, _, _)
\* first pass: extract_features for every candidate, the batch as corpus
ExtractAll(rest, query, cands) ==
    IF rest = <<>> THEN <<>>
    ELSE <<extract_features(Head(rest), query, Some(cands))>>
             \o ExtractAll(Tail(rest), query, cands)

RECURSIVE TextMatchColumn(_)
\* bm25_scores = [f["text_match"] for f in all_features]
TextMatchColumn(all_features) ==
    IF all_features = <<>> THEN <<>>
    ELSE <<Head(all_features).text_match>>
             \o TextMatchColumn(Tail(all_features))

RECURSIVE UpdateTextMatch(_, _)
\* for features, norm_bm25 in zip(...): features["text_match"] = norm_bm25
UpdateTextMatch(all_features, normalized_bm25) ==
    IF all_features = <<>> \/ normalized_bm25 = <<>> THEN all_features
    ELSE <<[Head(all_features) EXCEPT !.text_match = Head(normalized_bm25)]>>
             \o UpdateTextMatch(Tail(all_features), Tail(normalized_bm25))

\* lines 43-52 raise: a division by zero in the feature pass or in the
\* normalization of the BM25 column
FeaturesRaise(cands, query) ==
    \/ \E i \in 1..Len(cands) : bm25_raises(cands[i], query, Some(cands))
    \/ normalize_scores_raises(
           TextMatchColumn(ExtractAll(cands, query, cands)))

\* all_features after the BM25 column is normalized
AllFeatures(cands, query) ==
    LET raw == ExtractAll(cands, query, cands)
    IN  UpdateTextMatch(raw, normalize_scores(TextMatchColumn(raw)))

\* faulty variant: features.get(feature_name, 1.0)
FeatureGetDefaultOne(features, feature_name) ==
    IF feature_name \in DOMAIN features THEN features[feature_name] ELSE SCALE

\* features.get(feature_name, 0.0)
FeatureGet(features, feature_name) ==
    IF feature_name \in DOMAIN features THEN features[feature_name] ELSE 0

\* round(n / d, ScoreDigits) of a value already in score units:
\* to the nearest unit, a tie to the even one
Round(n, d) ==
    LET nn == IF d < 0 THEN 0 - n ELSE n
        dd == IF d < 0 THEN 0 - d ELSE d
        q  == nn \div dd
        r  == nn - q * dd
    IN  IF 2 * r < dd THEN q
        ELSE IF 2 * r > dd THEN q + 1
        ELSE IF q % 2 = 0 THEN q ELSE q + 1

\* sum(features.get(name, 0.0) * weight for name, weight in
\* normalized_weights.items()), rounded: the products share the
\* denominator total_weight
WeightedScore(features, normalized_weights) ==
    LET keys  == DOMAIN normalized_weights
        prods == [k \in keys |->
                     FeatureGet(features, k) * normalized_weights[k][1]]
        total == (CHOOSE k \in keys : TRUE)
    IN  IF keys = {} THEN 0
        ELSE Round(SumOver(prods, keys), normalized_weights[total][2])

\* the key of the sort: c.score or 0.0
SortKey(c) == IF c.score = None THEN 0 ELSE c.score[1]

RECURSIVE InsertBeforeTies(_, _, _)
\* faulty variant: an unstable sort, an object goes before its ties
InsertBeforeTies(sorted, i, cands) ==
    IF sorted = <<>> THEN <<i>>
    ELSE IF SortKey(cands[Head(sorted)]) > SortKey(cands[i])
         THEN <<Head(sorted)>> \o InsertBeforeTies(Tail(sorted), i, cands)
         ELSE <<i>> \o sorted

RECURSIVE InsertDesc(_, _, _)
\* place object i after every object whose key is >= its own
InsertDesc(sorted, i, cands) ==
    IF sorted = <<>> THEN <<i>>
    ELSE IF SortKey(cands[Head(sorted)]) >= SortKey(cands[i])
         THEN <<Head(sorted)>> \o InsertDesc(Tail(sorted), i, cands)
         ELSE <<i>> \o sorted

RECURSIVE SortFrom(_, _, _)
SortFrom(sorted, rest, cands) ==
    IF rest = <<>> THEN sorted
    ELSE SortFrom(InsertDesc(sorted, Head(rest), cands), Tail(rest), cands)

RECURSIVE InsertAsc(_, _, _)
InsertAsc(sorted, i, cands) ==
    IF sorted = <<>> THEN <<i>>
    ELSE IF SortKey(cands[Head(sorted)]) <= SortKey(cands[i])
         THEN <<Head(sorted)>> \o InsertAsc(Tail(sorted), i, cands)
         ELSE <<i>> \o sorted

RECURSIVE SortAscFrom(_, _, _)
SortAscFrom(sorted, rest, cands) ==
    IF rest = <<>> THEN sorted
    ELSE SortAscFrom(InsertAsc(sorted, Head(rest), cands), Tail(rest), cands)

\* faulty variant: the sort without reverse=True
SortAscending(scored, cands) == SortAscFrom(<<>>, scored, cands)

\* scored_candidates.sort(key=..., reverse=True): stable, descending
SortDescending(scored, cands) == SortFrom(<<>>, scored, cands)

RECURSIVE AssignScoresKeepExisting(_, _, _)
\* faulty variant: a candidate that already carries a score keeps it
AssignScoresKeepExisting(cands, all_features, normalized_weights) ==
    IF cands = <<>> \/ all_features = <<>> THEN cands
    ELSE << IF Head(cands).score # None THEN Head(cands)
            ELSE [Head(cands) EXCEPT
                     !.score = Some(WeightedScore(Head(all_features),
                                                  normalized_weights))] >>
             \o AssignScoresKeepExisting(Tail(cands), Tail(all_features),
                                         normalized_weights)

RECURSIVE AssignScores(_, _, _)
\* the scoring loop over zip(candidates, all_features):
\* candidate.score = round(score, 4)
AssignScores(cands, all_features, normalized_weights) ==
    IF cands = <<>> \/ all_features = <<>> THEN cands
    ELSE <<[Head(cands) EXCEPT
               !.score = Some(WeightedScore(Head(all_features),
                                            normalized_weights))]>>
             \o AssignScores(Tail(cands), Tail(all_features),
                             normalized_weights)

RECURSIVE Positions(_, _)
Positions(i, n) == IF i > n THEN <<>> ELSE <<i>> \o Positions(i + 1, n)

\* faulty variant: the first candidate is not collected
ScoredCandidatesSkipFirst(cands) == Positions(2, Len(cands))

\* scored_candidates before the sort: the objects in input order
ScoredCandidates(cands) == Positions(1, Len(cands))

RECURSIVE ClearScores(_)
ClearScores(cands) ==
    IF cands = <<>> THEN <<>>
    ELSE <<[Head(cands) EXCEPT !.score = None]>> \o ClearScores(Tail(cands))

\* faulty variant: the scores are reset before the weights are normalized
RerankRaiseClearsScores(cands, active_weights) ==
    [status             |-> "ZeroDivisionError",
     candidates         |-> ClearScores(cands),
     active_weights     |-> active_weights,
     normalized_weights |-> None,
     all_features       |-> None,
     returned           |-> None]

\* the call raises before the scoring loop (while it normalizes the
\* weights, or in the feature pass): nothing is scored and nothing is
\* returned
RerankRaise(cands, active_weights) ==
    [status             |-> "ZeroDivisionError",
     candidates         |-> cands,
     active_weights     |-> active_weights,
     normalized_weights |-> None,
     all_features       |-> None,
     returned           |-> None]

\* the call runs to its return statement
RerankReturn(cands, query, active_weights) ==
    LET normalized_weights == NormalizedWeights(active_weights)
        all_features == AllFeatures(cands, query)
        scored == AssignScores(cands, all_features, normalized_weights)
    IN  [status             |-> "returned",
         candidates         |-> scored,
         active_weights     |-> active_weights,
         normalized_weights |-> Some(normalized_weights),
         all_features       |-> Some(all_features),
         returned           |->
             Some(SortDescending(ScoredCandidates(scored), scored))]

\* Reranker.rerank: the outcome, the caller's objects after the call and
\* the locals
rerank(cands, query, weights, defaults) ==
    LET active_weights == ActiveWeights(weights, defaults)
    IN  IF NormalizeRaises(active_weights)
        THEN RerankRaise(cands, active_weights)
        ELSE IF FeaturesRaise(cands, query)
        THEN RerankRaise(cands, active_weights)
        ELSE RerankReturn(cands, query, active_weights)

\* faulty variant: the weights are normalized in place, in the map that
\* active_weights refers to: the caller's map, or the ranker's default map
RerankEffectsNormalizeInPlace(cands, query, weights, defaults) ==
    LET r == rerank(cands, query, weights, defaults)
        given == ~(weights = None \/ DOMAIN weights[1] = {})
        normalized == IF r.normalized_weights = None
                      THEN r.active_weights
                      ELSE [k \in DOMAIN r.active_weights |->
                               (r.normalized_weights[1][k][1] * SCALE)
                                   \div r.normalized_weights[1][k][2]]
    IN  [status          |-> r.status,
         candidates      |-> r.candidates,
         weights         |-> IF given THEN Some(normalized) ELSE weights,
         default_weights |-> IF given THEN defaults ELSE normalized,
         returned        |-> r.returned]

\* Reranker.rerank with everything the caller can look at afterwards: the
\* outcome, its list and the objects in it, the map it passed as weights
\* and the ranker's default map.  The code assigns to candidate.score only;
\* active_weights is read, and the sort is on the new list
\* scored_candidates.
RerankEffects(cands, query, weights, defaults) ==
    LET r == rerank(cands, query, weights, defaults)
    IN  [status          |-> r.status,
         candidates      |-> r.candidates,
         weights         |-> weights,
         default_weights |-> defaults,
         returned        |-> r.returned]

(***************************************************************************)
(* Inputs                                                                  *)
(***************************************************************************)
\* the product table the retriever reads, in row order
CatalogRows ==
    << [id |-> "p1", title |-> <<"Wireless", " ", "Headphones">>,
        description |-> <<"wireless", " ", "studio">>,
        category |-> "Electronics",
        price |-> 200, rating |-> 45, num_reviews |-> 1000],
       [id |-> "p2", title |-> <<"Wireless", " ", "Headphones">>,
        description |-> <<"wireless", " ", "studio">>,
        category |-> "Electronics",
        price |-> 200, rating |-> 45, num_reviews |-> 1000],
       [id |-> "p3", title |-> <<"Cheap", " ", "Earbuds">>,
        description |-> <<"headphones">>,
        category |-> "Audio",
        price |-> 0, rating |-> 35, num_reviews |-> 0],
       [id |-> "p4", title |-> <<>>,
        description |-> <<" ">>,
        category |-> "Misc",
        price |-> 2000, rating |-> 50, num_reviews |-> 20000] >>

Rows == 1..Len(CatalogRows)

\* Candidate(..., score=None) for a product row
AsCandidate(p) ==
    [id |-> p.id, title |-> p.title, description |-> p.description,
     category |-> p.category, price |-> p.price, rating |-> p.rating,
     num_reviews |-> p.num_reviews, score |-> None]

RECURSIVE Candidates(_)
\* fresh Candidate objects for a list of rows
Candidates(batch) ==
    IF batch = <<>> THEN <<>>
    ELSE <<AsCandidate(CatalogRows[Head(batch)])>> \o Candidates(Tail(batch))

\* the row lists a retrieval can give: distinct rows, in any order
Batches ==
    UNION { { s \in [1..n -> Rows] : \A i, j \in 1..n : i # j => s[i] # s[j] } :
            n \in 0..MaxBatch }

\* the row lists in table order
OrderedBatches ==
    { s \in Batches : \A i, j \in 1..Len(s) : i < j => s[i] < s[j] }

Queries ==
    { <<>>,
      <<" ">>,
      <<"wireless">>,
      <<"Wireless", " ", "Headphones">>,
      <<"earbuds", " ", " ", "earbuds">> }

EmptyMap == [k \in {} |-> 0]
ZeroMap == [text_match |-> 0, price |-> 0, rating |-> 0, popularity |-> 0]
CancelMap == [text_match |-> 1, price |-> (0 - 1)]
NegativeMap == [text_match |-> 3, price |-> (0 - 1), rating |-> 1]
PriceMap == [text_match |-> 1, price |-> 7, rating |-> 1, popularity |-> 1]
PartialMap == [text_match |-> 5, price |-> 2, rating |-> 3]
UnknownKeyMap == [text_match |-> 1, semantic |-> 1]

WeightMaps ==
    {EmptyMap, ZeroMap, CancelMap, NegativeMap, PriceMap, PartialMap,
     UnknownKeyMap}

\* the weights argument: None or a map
WeightArgs == {None} \cup {Some(m) : m \in WeightMaps}

\* the default_weights argument of Reranker(...)
DefaultArgs == {None, Some(SettingsWeights), Some(EmptyMap)}

\* the arguments of the calls a caller repeats on the list it holds
ReuseQueries == { <<"wireless">>, <<"earbuds", " ", " ", "earbuds">> }
ReuseWeightArgs == {None, Some(ZeroMap), Some(CancelMap), Some(PriceMap)}

(***************************************************************************)
(* State machine                                                           *)
(***************************************************************************)
NoCall ==
    [status |-> "none", query |-> <<>>, weights |-> None,
     active_weights |-> None, normalized_weights |-> None,
     all_features |-> None, returned |-> None, before |-> <<>>]

\* no concurrent call has started
IdleWorker ==
    [pc |-> "idle", query |-> <<>>, weights |-> None,
     normalized_weights |-> None, all_features |-> None, next |-> 1,
     scored_candidates |-> <<>>, returned |-> None, scores |-> None]

\* the threads (or workers) that call rerank at the same time
Workers == {1, 2}

NoWorkers == [t \in Workers |-> IdleWorker]

\* no request has been made
NoRequest == [status |-> "none", request |-> None, response |-> None]

\* no helper function has been applied on its own
NoProbe == [op |-> "none", args |-> <<>>, result |-> None]

\* a Reranker is constructed; the caller holds no candidates yet
Init ==
    /\ default_weights \in {ReRankerInit(a) : a \in DefaultArgs}
    /\ candidates = <<>>
    /\ call = NoCall
    /\ workers = NoWorkers
    /\ endpoint = NoRequest
    /\ probe = NoProbe

\* the caller gets a fresh list of Candidate objects (MockRetriever.retrieve,
\* or Candidate(...) by hand as the tests do)
Retrieve(batches) ==
    /\ \E batch \in batches : candidates' = Candidates(batch)
    /\ call' = NoCall
    /\ UNCHANGED <<default_weights, workers, endpoint, probe>>

\* reranker.rerank(candidates, query, weights) on the list the caller holds
Rerank(queries, weightArgs) ==
    \E query \in queries, weights \in weightArgs :
        LET r == rerank(candidates, query, weights, default_weights)
        IN  /\ candidates' = r.candidates
            /\ call' = [status             |-> r.status,
                        query              |-> query,
                        weights            |-> weights,
                        active_weights     |-> Some(r.active_weights),
                        normalized_weights |-> r.normalized_weights,
                        all_features       |-> r.all_features,
                        returned           |-> r.returned,
                        before             |-> candidates]
            /\ UNCHANGED <<default_weights, workers, endpoint, probe>>

\* a caller builds a list and ranks it once, as the endpoint and the tests do
RerankRetrieved == call.status = "none" /\ Rerank(Queries, WeightArgs)

Next == Retrieve(Batches) \/ RerankRetrieved

Spec == Init /\ [][Next]_vars

\* a caller builds lists by hand in which a product may repeat: documents
\* without terms, identical documents, mixed
DegenerateBatches == UNION { [1..n -> {1, 3, 4}] : n \in 0..MaxBatch }

RetrieveDegenerate == Retrieve(DegenerateBatches)

RerankDegenerate == call.status = "none" /\ Rerank(Queries, WeightArgs)

NextDegenerate == RetrieveDegenerate \/ RerankDegenerate

SpecDegenerate == Init /\ [][NextDegenerate]_vars

\* a caller keeps its list and ranks it again and again
RetrieveOrdered == Retrieve(OrderedBatches)

RerankAgain == Rerank(ReuseQueries, ReuseWeightArgs)

NextReuse == RetrieveOrdered \/ RerankAgain

SpecReuse == Init /\ [][NextReuse]_vars

(***************************************************************************)
(* Concurrent calls: rerank step by step.  Two workers call rerank on the  *)
(* list of Candidate objects that the caller holds; a step is one          *)
(* statement or one iteration of the scoring loop, and the workers' steps  *)
(* interleave freely (threads under the interpreter lock).                 *)
(***************************************************************************)
\* the arguments of the concurrent calls
ConcurrentQueries == { <<"wireless">>, <<"earbuds", " ", " ", "earbuds">> }
ConcurrentWeightArgs == {None, Some(ZeroMap), Some(PriceMap)}

RECURSIVE ScoresOf(_)
\* [c.score for c in candidates]
ScoresOf(cands) ==
    IF cands = <<>> THEN <<>>
    ELSE <<Head(cands).score>> \o ScoresOf(Tail(cands))

\* the caller builds the list that it hands to both workers
RetrieveShared ==
    /\ \A t \in Workers : workers[t].pc = "idle"
    /\ \E batch \in OrderedBatches : candidates' = Candidates(batch)
    /\ UNCHANGED <<default_weights, call, workers, endpoint, probe>>

\* lines 36-40: the weights are resolved and normalized, or the division
\* raises
WorkerStart(t) ==
    /\ workers[t].pc = "idle"
    /\ \E query \in ConcurrentQueries, weights \in ConcurrentWeightArgs :
          LET active_weights == ActiveWeights(weights, default_weights)
          IN  workers' = [workers EXCEPT ![t] =
                  IF NormalizeRaises(active_weights)
                  THEN [@ EXCEPT !.pc = "ZeroDivisionError",
                                 !.query = query, !.weights = weights]
                  ELSE [@ EXCEPT !.pc = "extract",
                                 !.query = query, !.weights = weights,
                                 !.normalized_weights =
                                     Some(NormalizedWeights(active_weights))]]
    /\ UNCHANGED <<default_weights, candidates, call, endpoint, probe>>

\* lines 43-56: the features of every candidate, the BM25 column normalized
\* (the fields read here are never written)
WorkerExtract(t) ==
    /\ workers[t].pc = "extract"
    /\ workers' = [workers EXCEPT ![t] =
           [@ EXCEPT !.pc = IF candidates = <<>> THEN "sort" ELSE "score",
                     !.all_features =
                         Some(AllFeatures(candidates, workers[t].query)),
                     !.next = 1]]
    /\ UNCHANGED <<default_weights, candidates, call, endpoint, probe>>

\* lines 60-68, one iteration: the score is assigned into the caller's
\* object, and the object is appended to scored_candidates
WorkerScore(t) ==
    /\ workers[t].pc = "score"
    /\ LET i == workers[t].next
           score == WeightedScore(workers[t].all_features[1][i],
                                  workers[t].normalized_weights[1])
       IN  /\ candidates' = [candidates EXCEPT ![i].score = Some(score)]
           /\ workers' = [workers EXCEPT ![t] =
                  [@ EXCEPT !.pc = IF i >= Len(candidates)
                                   THEN "sort" ELSE "score",
                            !.next = i + 1,
                            !.scored_candidates = Append(@, i)]]
    /\ UNCHANGED <<default_weights, call, endpoint, probe>>

\* line 71: the sort reads the scores that the objects carry now
WorkerSort(t) ==
    /\ workers[t].pc = "sort"
    /\ workers' = [workers EXCEPT ![t] =
           [@ EXCEPT !.pc = "return",
                     !.returned = Some(SortDescending(
                                      workers[t].scored_candidates,
                                      candidates))]]
    /\ UNCHANGED <<default_weights, candidates, call, endpoint, probe>>

\* line 73: the list is returned, and the caller reads the scores of the
\* objects in it
WorkerReturn(t) ==
    /\ workers[t].pc = "return"
    /\ workers' = [workers EXCEPT ![t] =
           [@ EXCEPT !.pc = "returned",
                     !.scores = Some(ScoresOf(candidates))]]
    /\ UNCHANGED <<default_weights, candidates, call, endpoint, probe>>

WorkerStep(t) ==
    \/ WorkerStart(t)
    \/ WorkerExtract(t)
    \/ WorkerScore(t)
    \/ WorkerSort(t)
    \/ WorkerReturn(t)

NextConcurrent == RetrieveShared \/ \E t \in Workers : WorkerStep(t)

SpecConcurrent == Init /\ [][NextConcurrent]_vars

(***************************************************************************)
(* One call, loop iteration by loop iteration: the first pass appends one  *)
(* candidate's raw features per step, then the BM25 column is normalized,  *)
(* then the scoring loop writes one score per step.                        *)
(***************************************************************************)
\* the worker that makes the call
Caller == CHOOSE t \in Workers : \A u \in Workers : t <= u

\* the caller builds a fresh list
RetrievePhased ==
    /\ workers[Caller].pc = "idle"
    /\ \E batch \in Batches : candidates' = Candidates(batch)
    /\ UNCHANGED <<default_weights, call, workers, endpoint, probe>>

\* lines 36-43: the weights are resolved and normalized (or the division
\* raises) and all_features is the empty list
PhaseStart ==
    /\ workers[Caller].pc = "idle"
    /\ \E query \in Queries, weights \in ConcurrentWeightArgs :
          LET active_weights == ActiveWeights(weights, default_weights)
          IN  workers' = [workers EXCEPT ![Caller] =
                  IF NormalizeRaises(active_weights)
                  THEN [@ EXCEPT !.pc = "ZeroDivisionError",
                                 !.query = query, !.weights = weights]
                  ELSE [@ EXCEPT !.pc = IF candidates = <<>>
                                        THEN "normalize" ELSE "extract",
                                 !.query = query, !.weights = weights,
                                 !.normalized_weights =
                                     Some(NormalizedWeights(active_weights)),
                                 !.all_features = Some(<<>>),
                                 !.next = 1]]
    /\ UNCHANGED <<default_weights, candidates, call, endpoint, probe>>

\* faulty variant: one pass, in which a candidate's features are
\* extracted, its text_match is normalized on its own and its score is
\* written before the next candidate is looked at
PhaseExtractAndScore ==
    /\ workers[Caller].pc = "extract"
    /\ LET w == workers[Caller]
           i == w.next
           raw == extract_features(candidates[i], w.query, Some(candidates))
           features == [raw EXCEPT
                           !.text_match =
                               normalize_scores(<<raw.text_match>>)[1]]
       IN  /\ candidates' = [candidates EXCEPT ![i].score =
                  Some(WeightedScore(features, w.normalized_weights[1]))]
           /\ workers' = [workers EXCEPT ![Caller] =
                  [@ EXCEPT !.pc = IF i >= Len(candidates)
                                   THEN "normalize" ELSE "extract",
                            !.all_features = Some(Append(@[1], raw)),
                            !.scored_candidates = Append(@, i),
                            !.next = i + 1]]
    /\ UNCHANGED <<default_weights, call, endpoint, probe>>

\* lines 44-48, one iteration: the raw features of the next candidate are
\* appended to all_features
PhaseExtract ==
    /\ workers[Caller].pc = "extract"
    /\ LET w == workers[Caller]
           i == w.next
           raw == extract_features(candidates[i], w.query, Some(candidates))
       IN  workers' = [workers EXCEPT ![Caller] =
               [@ EXCEPT !.pc = IF i >= Len(candidates)
                                THEN "normalize" ELSE "extract",
                         !.all_features = Some(Append(@[1], raw)),
                         !.next = i + 1]]
    /\ UNCHANGED <<default_weights, candidates, call, endpoint, probe>>

\* lines 51-56: the BM25 column of all_features is normalized in place
PhaseNormalize ==
    /\ workers[Caller].pc = "normalize"
    /\ LET raw == workers[Caller].all_features[1]
       IN  workers' = [workers EXCEPT ![Caller] =
               [@ EXCEPT !.pc = IF candidates = <<>> \/ raw = <<>>
                                THEN "sort" ELSE "score",
                         !.all_features =
                             Some(UpdateTextMatch(raw,
                                 normalize_scores(TextMatchColumn(raw)))),
                         !.next = 1]]
    /\ UNCHANGED <<default_weights, candidates, call, endpoint, probe>>

\* lines 60-68, one iteration over zip(candidates, all_features): the loop
\* ends with the shorter of the two
PhaseScore ==
    /\ workers[Caller].pc = "score"
    /\ LET w == workers[Caller]
           i == w.next
           score == WeightedScore(w.all_features[1][i],
                                  w.normalized_weights[1])
       IN  /\ candidates' = [candidates EXCEPT ![i].score = Some(score)]
           /\ workers' = [workers EXCEPT ![Caller] =
                  [@ EXCEPT !.pc = IF i >= Len(candidates)
                                      \/ i >= Len(w.all_features[1])
                                   THEN "sort" ELSE "score",
                            !.next = i + 1,
                            !.scored_candidates = Append(@, i)]]
    /\ UNCHANGED <<default_weights, call, endpoint, probe>>

\* line 71, and line 73
PhaseSort == WorkerSort(Caller)
PhaseReturn == WorkerReturn(Caller)

NextPhased ==
    \/ RetrievePhased
    \/ PhaseStart
    \/ PhaseExtract
    \/ PhaseNormalize
    \/ PhaseScore
    \/ PhaseSort
    \/ PhaseReturn

SpecPhased == Init /\ [][NextPhased]_vars

(***************************************************************************)
(* The endpoint rerank_candidates (web/api/rerank/views.py)                *)
(***************************************************************************)
\* the product ids a request may name; "p9" is no product
RequestIds == {"p1", "p3", "p4", "p9"}

\* RerankRequest.candidate_ids: at least one id, repeats allowed
CandidateIdLists == UNION { [1..n -> RequestIds] : n \in 1..MaxBatch }

\* RerankRequest: the query has at least one character
Requests ==
    [query : { <<" ">>, <<"wireless">> },
     candidate_ids : CandidateIdLists,
     weights : {None, Some(ZeroMap), Some(PriceMap)}]

\* ProductDAO.get_by_product_ids: the rows whose product_id is in the list
get_by_product_ids(product_ids) ==
    {r \in Rows : CatalogRows[r].id \in ToSet(product_ids)}

RECURSIVE Reranked(_, _)
\* the list rerank returned, as the Candidate records it refers to
Reranked(returned, cands) ==
    IF returned = <<>> THEN <<>>
    ELSE <<cands[Head(returned)]>> \o Reranked(Tail(returned), cands)

\* faulty variant: count is the number of ids asked for
RerankResponseCountsIds(request, reranked) ==
    [query |-> request.query, candidates |-> reranked,
     count |-> Len(request.candidate_ids)]

\* RerankResponse(query=request.query, candidates=reranked,
\*                count=len(reranked))
RerankResponse(request, reranked) ==
    [query |-> request.query, candidates |-> reranked,
     count |-> Len(reranked)]

\* a request arrives: get_reranker builds the Reranker from the settings and
\* the retriever gives the matching rows as fresh Candidate objects, in the
\* order the database chooses
EndpointRetrieve ==
    /\ endpoint.status = "none"
    /\ \E request \in Requests, batch \in Batches :
          /\ ToSet(batch) = get_by_product_ids(request.candidate_ids)
          /\ candidates' = Candidates(batch)
          /\ endpoint' = [status |-> "retrieved", request |-> Some(request),
                          response |-> None]
    /\ default_weights' = ReRankerInit(Some(SettingsWeights))
    /\ call' = NoCall
    /\ UNCHANGED <<workers, probe>>

\* lines 37-54: not found when nothing was retrieved; otherwise rerank and
\* the response, or the error that rerank raised
EndpointRerank ==
    /\ endpoint.status = "retrieved"
    /\ LET request == endpoint.request[1]
           r == rerank(candidates, request.query, request.weights,
                       default_weights)
       IN  IF candidates = <<>>
           THEN /\ endpoint' = [endpoint EXCEPT !.status = "404"]
                /\ UNCHANGED <<candidates, call>>
           ELSE /\ candidates' = r.candidates
                /\ call' = [status             |-> r.status,
                            query              |-> request.query,
                            weights            |-> request.weights,
                            active_weights     |-> Some(r.active_weights),
                            normalized_weights |-> r.normalized_weights,
                            all_features       |-> r.all_features,
                            returned           |-> r.returned,
                            before             |-> candidates]
                /\ endpoint' =
                       IF r.status = "returned"
                       THEN [endpoint EXCEPT
                                !.status = "200",
                                !.response = Some(RerankResponse(request,
                                    Reranked(r.returned[1], r.candidates)))]
                       ELSE [endpoint EXCEPT !.status = r.status]
    /\ UNCHANGED <<default_weights, workers, probe>>

\* the outcome is sent; the handler's objects are dropped
EndpointDone ==
    /\ endpoint.status \notin {"none", "retrieved"}
    /\ endpoint' = NoRequest
    /\ candidates' = <<>>
    /\ call' = NoCall
    /\ UNCHANGED <<default_weights, workers, probe>>

NextEndpoint == EndpointRetrieve \/ EndpointRerank \/ EndpointDone

SpecEndpoint == Init /\ [][NextEndpoint]_vars

(***************************************************************************)
(* The helper functions on their own, as the unit tests call them          *)
(***************************************************************************)
\* the state in which helper op is about to be applied to one of inputs
ProbeInit(op, inputs) ==
    /\ default_weights = BuiltinWeights
    /\ candidates = <<>>
    /\ call = NoCall
    /\ workers = NoWorkers
    /\ endpoint = NoRequest
    /\ probe \in {[op |-> op, args |-> a, result |-> None] : a \in inputs}

\* helper op is applied: result is what it returns
ProbeApply(op, result) ==
    /\ probe.op = op
    /\ probe.result = None
    /\ probe' = [probe EXCEPT !.result = Some(result)]
    /\ UNCHANGED <<default_weights, candidates, call, workers, endpoint>>

\* raw scores, in score units: negative, zero, equal and far apart
ScoreValues == {0 - 5000, 0, 1, 3333, 10000, 50000}

ScoreLists == UNION { [1..n -> ScoreValues] : n \in 0..MaxScores }

InitNormalize == ProbeInit("_normalize_scores", ScoreLists)

\* reranker._normalize_scores(scores)
ApplyNormalize ==
    ProbeApply("_normalize_scores", normalize_scores(probe.args))

SpecNormalize == InitNormalize /\ [][ApplyNormalize]_vars

\* the corpus argument: absent, or a list of candidates
CorpusArgs == {None} \cup {Some(Candidates(b)) : b \in OrderedBatches}

\* the arguments of _compute_bm25: the candidate is any product, in the
\* corpus or not
Bm25Args ==
    [candidate : {AsCandidate(CatalogRows[r]) : r \in Rows},
     query : Queries,
     all_candidates : CorpusArgs]

InitBm25 == ProbeInit("_compute_bm25", Bm25Args)

\* extractor._compute_bm25(candidate, query, all_candidates)
ApplyBm25 ==
    ProbeApply("_compute_bm25",
               compute_bm25(probe.args.candidate, probe.args.query,
                            probe.args.all_candidates))

SpecBm25 == InitBm25 /\ [][ApplyBm25]_vars

\* the terms a query set may hold: in every product with text, in two of
\* them, in one, in none
IdfTerms == {"headphones", "wireless", "earbuds", "zzz"}

\* the arguments of _compute_idf
IdfArgs ==
    [query_terms : SUBSET IdfTerms,
     all_candidates : {Candidates(b) : b \in OrderedBatches}]

InitIdf == ProbeInit("_compute_idf", IdfArgs)

\* extractor._compute_idf(query_terms, all_candidates)
ApplyIdf ==
    ProbeApply("_compute_idf",
               idf_dict(probe.args.query_terms, probe.args.all_candidates))

SpecIdf == InitIdf /\ [][ApplyIdf]_vars

\* valid candidates (price >= 0, rating in [0, 5], num_reviews >= 0) with
\* values from free to far above max_price and max_reviews
FeaturePrices == {0, 1, 15, 200, 1000, 2000}
FeatureRatings == {0, 1, 35, 50}
FeatureReviews == {0, 1, 1000, 10000, 20000}

FeatureCandidates ==
    { [AsCandidate(CatalogRows[r]) EXCEPT
          !.price = p, !.rating = g, !.num_reviews = n] :
      r \in {1, 3, 4}, p \in FeaturePrices, g \in FeatureRatings,
      n \in FeatureReviews }

\* the arguments of extract_features: the corpus is absent, or two products
FeatureArgs ==
    [candidate : FeatureCandidates,
     query : { <<>>, <<"Wireless", " ", "Headphones">> },
     all_candidates : {None, Some(Candidates(<<1, 3>>))}]

InitFeatures == ProbeInit("extract_features", FeatureArgs)

\* extractor.extract_features(candidate, query, all_candidates)
ApplyFeatures ==
    ProbeApply("extract_features",
               extract_features(probe.args.candidate, probe.args.query,
                                probe.args.all_candidates))

SpecFeatures == InitFeatures /\ [][ApplyFeatures]_vars

\* the arguments of a rerank call and the ranker's default map
RerankArgs ==
    [candidates : {Candidates(b) : b \in OrderedBatches},
     query : ReuseQueries,
     weights : WeightArgs,
     default_weights : {ReRankerInit(a) : a \in DefaultArgs}]

InitRerank == ProbeInit("rerank", RerankArgs)

\* reranker.rerank(candidates, query, weights)
ApplyRerank ==
    ProbeApply("rerank",
               RerankEffects(probe.args.candidates, probe.args.query,
                             probe.args.weights, probe.args.default_weights))

SpecFrame == InitRerank /\ [][ApplyRerank]_vars

(***************************************************************************)
(* Properties                                                              *)
(***************************************************************************)
Called == call.status # "none"
Returned == call.status = "returned"
Raised == call.status = "ZeroDivisionError"

\* the returned list, and the score the object at position i carries
ReturnedList == call.returned[1]
ScoreOf(i) == candidates[i].score[1]

\* the resolved map as the specification has it: the caller's map whenever
\* one is given, the default map otherwise
ResolvedMap ==
    IF call.weights = None THEN default_weights ELSE call.weights[1]

\* the map the call worked with
ActiveMap == call.active_weights[1]

FeatureNames == {"text_match", "price", "rating", "popularity"}

\* the weight that feature f has in map m, 0 when it is no key
WeightOf(m, f) == IF f \in DOMAIN m THEN m[f] ELSE 0

\* non-negative weights with a positive sum
ValidWeights(m) == (\A k \in DOMAIN m : m[k] >= 0) /\ SumValues(m) > 0

\* C1: a call whose resolved weights sum to zero (an all-zero map and an
\* empty caller map included) fails with InvalidWeights and returns no list.
C1_ZeroSumIsInvalidWeights ==
    (Called /\ SumValues(ResolvedMap) = 0)
        => (call.status = "InvalidWeights" /\ call.returned = None)

\* C2: a call whose resolved weights hold a negative weight fails with
\* InvalidWeights, whatever their sum.
C2_NegativeWeightIsInvalidWeights ==
    (Called /\ \E k \in DOMAIN ResolvedMap : ResolvedMap[k] < 0)
        => call.status = "InvalidWeights"

\* C3: when a call fails because of its weights, every candidate of the
\* batch carries the score it carried before the call.
C3_FailureAssignsNoScore ==
    Raised =>
        /\ Len(candidates) = Len(call.before)
        /\ \A i \in 1..Len(candidates) :
              candidates[i].score = call.before[i].score

\* a failed call on candidates that an earlier call had scored
C3_Witness ==
    /\ Raised
    /\ Len(candidates) >= 2
    /\ \A i \in 1..Len(candidates) : call.before[i].score # None

\* C4: the returned list is sorted by score, descending: each adjacent
\* pair (a, b) has a.score >= b.score.
C4_SortedDescending ==
    Returned =>
        \A p \in 1..(Len(ReturnedList) - 1) :
            ScoreOf(ReturnedList[p]) >= ScoreOf(ReturnedList[p + 1])

\* a returned list whose order is not the input order, with unequal scores
C4_Witness ==
    /\ Returned
    /\ Len(ReturnedList) >= 3
    /\ ReturnedList[1] # 1
    /\ ScoreOf(ReturnedList[1]) > ScoreOf(ReturnedList[2])
    /\ ScoreOf(ReturnedList[2]) > ScoreOf(ReturnedList[3])

\* C5: candidates with the same rounded score come out in their input order.
C5_TiesKeepInputOrder ==
    Returned =>
        \A p, q \in 1..Len(ReturnedList) :
            (p < q /\ ScoreOf(ReturnedList[p]) = ScoreOf(ReturnedList[q]))
                => ReturnedList[p] < ReturnedList[q]

\* two candidates tie below a candidate that came after them in the input
C5_Witness ==
    /\ Returned
    /\ Len(ReturnedList) >= 3
    /\ ReturnedList[1] = 3
    /\ ScoreOf(1) = ScoreOf(2)
    /\ ScoreOf(3) > ScoreOf(1)

C7_ScoresInUnitInterval ==
    (Returned /\ ValidWeights(ActiveMap)) =>
        \A i \in 1..Len(candidates) : ScoreOf(i) >= 0 /\ ScoreOf(i) <= SCALE

\* valid weights on price and popularity, a candidate priced above
\* max_price with more than max_reviews reviews, and a score above 0.8
C7_Witness ==
    /\ Returned
    /\ ValidWeights(ActiveMap)
    /\ WeightOf(ActiveMap, "price") > 0
    /\ WeightOf(ActiveMap, "popularity") > 0
    /\ \E i, j \in 1..Len(candidates) :
          /\ candidates[i].price > max_price
          /\ candidates[i].num_reviews > max_reviews
          /\ 10 * ScoreOf(j) > 8 * SCALE

\* C8: the weights used are the caller's map whenever the caller gives one,
\* an empty one included, and the default map only for weights=None.
C8_CallerMapAlwaysUsed ==
    Called => ActiveMap = ResolvedMap

\* the blend of one feature vector, written out feature by feature
Blend(m, features) ==
    Round(WeightOf(m, "text_match") * features.text_match
            + WeightOf(m, "price") * features.price
            + WeightOf(m, "rating") * features.rating
            + WeightOf(m, "popularity") * features.popularity,
          SumValues(m))

\* C9: for valid weights the call returns, the weights of the blend are the
\* resolved weights each divided by their sum (so they sum to 1), and each
\* score is the rounded sum of weight times feature value over the four
\* features: an unknown weight key and an unweighted feature add 0.
C9_BlendOfNormalizedWeights ==
    (Called /\ ValidWeights(ActiveMap)) =>
        /\ Returned
        /\ LET nw == call.normalized_weights[1]
           IN  /\ DOMAIN nw = DOMAIN ActiveMap
               /\ \A k \in DOMAIN nw :
                     nw[k] = <<ActiveMap[k], SumValues(ActiveMap)>>
               /\ SumOver([k \in DOMAIN nw |-> nw[k][1]], DOMAIN nw)
                     = SumValues(ActiveMap)
        /\ Len(call.all_features[1]) = Len(candidates)
        /\ \A i \in 1..Len(candidates) :
              candidates[i].score =
                  Some(Blend(ActiveMap, call.all_features[1][i]))

\* a map with an unknown key and without a key for some feature, on a
\* batch where it gives a positive score
C9_Witness ==
    /\ Returned
    /\ ValidWeights(ActiveMap)
    /\ DOMAIN ActiveMap \ FeatureNames # {}
    /\ FeatureNames \ DOMAIN ActiveMap # {}
    /\ \E i \in 1..Len(candidates) : ScoreOf(i) > 0

\* C10: a call returns the scores and the order that the same call returns
\* on fresh records of equal field values, whatever scores its candidates
\* carried: two calls on the same inputs agree.
C10_IndependentOfCarriedScores ==
    Returned =>
        LET fresh == rerank(ClearScores(call.before), call.query,
                            call.weights, default_weights)
        IN  /\ fresh.status = "returned"
            /\ fresh.candidates = candidates
            /\ fresh.returned = call.returned

\* a call on candidates that all carried other scores than it assigns
C10_Witness ==
    /\ Returned
    /\ Len(candidates) >= 2
    /\ \A i \in 1..Len(candidates) :
          /\ call.before[i].score # None
          /\ call.before[i].score # candidates[i].score

\* C11: rerank does not mutate the candidate records it is given: after a
\* call that returns, every input candidate's score field is what it was
\* before the call.
C11_InputScoresUnchanged ==
    Returned =>
        /\ Len(candidates) = Len(call.before)
        /\ \A i \in 1..Len(candidates) :
              candidates[i].score = call.before[i].score

\* what worker t's call gives when no other call runs
Alone(t) ==
    rerank(candidates, workers[t].query, workers[t].weights, default_weights)

\* C12: under every interleaving of two calls, also on the same candidate
\* records, each call returns the scores and the order that it returns when
\* it runs alone, and its list is sorted descending by the scores it reports.
C12_ConcurrentCallsDoNotInterfere ==
    \A t \in Workers :
        workers[t].pc = "returned" =>
            LET list   == workers[t].returned[1]
                scores == workers[t].scores[1]
            IN  /\ Alone(t).status = "returned"
                /\ workers[t].returned = Alone(t).returned
                /\ scores = ScoresOf(Alone(t).candidates)
                /\ \A p \in 1..(Len(list) - 1) :
                      scores[list[p]][1] >= scores[list[p + 1]][1]

\* the request has run to its outcome
Answered == endpoint.status \notin {"none", "retrieved"}

C13_WitnessNotFound ==
    /\ endpoint.status = "404"
    /\ endpoint.request[1].weights = Some(ZeroMap)

\* helper op has been applied
Applied(op) == probe.op = op /\ probe.result # None

\* C14: _normalize_scores gives a list of the same length with every
\* element in [0, 1]; an empty list gives an empty list; equal values (a
\* single value included) all give 0.5; otherwise element i is
\* (v_i - min) / (max - min) (here to the score unit below), so that a
\* minimum gives 0 and a maximum gives 1.
C14_NormalizeScores ==
    Applied("_normalize_scores") =>
        LET v   == probe.args
            out == probe.result[1]
            lo  == CHOOSE x \in ToSet(v) : \A y \in ToSet(v) : x <= y
            hi  == CHOOSE x \in ToSet(v) : \A y \in ToSet(v) : x >= y
        IN  /\ Len(out) = Len(v)
            /\ \A i \in 1..Len(out) : out[i] >= 0 /\ out[i] <= SCALE
            /\ v = <<>> => out = <<>>
            /\ (v # <<>> /\ lo = hi) =>
                  \A i \in 1..Len(out) : 2 * out[i] = SCALE
            /\ (v # <<>> /\ lo # hi) =>
                  \A i \in 1..Len(out) :
                     /\ out[i] * (hi - lo) <= (v[i] - lo) * SCALE
                     /\ (v[i] - lo) * SCALE < (out[i] + 1) * (hi - lo)
                     /\ v[i] = lo => out[i] = 0
                     /\ v[i] = hi => out[i] = SCALE

\* a list with a negative minimum, a maximum and a value between them
C14_Witness ==
    /\ Applied("_normalize_scores")
    /\ Len(probe.args) = 3
    /\ probe.args[2] < 0
    /\ probe.result[1][1] = SCALE
    /\ probe.result[1][3] > 0
    /\ probe.result[1][3] < SCALE

\* a list of equal values
C14_WitnessEqual ==
    /\ Applied("_normalize_scores")
    /\ Len(probe.args) = 3
    /\ probe.result[1] = <<SCALE \div 2, SCALE \div 2, SCALE \div 2>>

\* the distinct terms of the probed query and of the probed candidate's
\* title and description
QueryTermSet == ToSet(tokenize(probe.args.query))
DocTermSet ==
    ToSet(tokenize(probe.args.candidate.title))
        \cup ToSet(tokenize(probe.args.candidate.description))

\* the corpus is absent or has fewer than 2 candidates
SmallCorpus ==
    probe.args.all_candidates = None \/ Len(probe.args.all_candidates[1]) < 2

\* the BM25 sum of the probed arguments, by the formula
Bm25Value ==
    LET corpus == probe.args.all_candidates[1]
        doc    == tokenize(doc_text(probe.args.candidate))
    IN  IF tokenize(probe.args.query) = <<>> \/ doc = <<>> THEN 0
        ELSE Bm25Sum(tokenize(probe.args.query), doc,
                     TotalLen(Corpus(corpus)), corpus)

\* C15: without a corpus, or with a corpus of fewer than 2 candidates, the
\* lexical score is the number of distinct query terms that occur in the
\* title or the description, divided by the number of distinct query terms:
\* a value in [0, 1], and 1.0 when every query term occurs.  With a corpus
\* of 2 or more candidates the score is the BM25 sum, not the overlap.
C15_FallbackIsOverlapRatio ==
    Applied("_compute_bm25") =>
        LET out     == probe.result[1]
            overlap == Cardinality(QueryTermSet \cap DocTermSet)
            terms   == Cardinality(QueryTermSet)
        IN  /\ SmallCorpus => (out >= 0 /\ out <= SCALE)
            /\ (SmallCorpus /\ terms > 0) =>
                  /\ out * terms <= overlap * SCALE
                  /\ overlap * SCALE < (out + 1) * terms
                  /\ QueryTermSet \subseteq DocTermSet => out = SCALE
            /\ ~SmallCorpus => out = Bm25Value

\* a corpus of one candidate, a query of two terms of which one occurs
C15_Witness ==
    /\ Applied("_compute_bm25")
    /\ probe.args.all_candidates # None
    /\ Len(probe.args.all_candidates[1]) = 1
    /\ Cardinality(QueryTermSet) = 2
    /\ 2 * probe.result[1] = SCALE

\* a corpus of two candidates, where the BM25 sum is above 1.0
C15_WitnessBm25 ==
    /\ Applied("_compute_bm25")
    /\ ~SmallCorpus
    /\ probe.result[1] > SCALE

\* C16: the lexical score is 0.0 whenever the query tokenizes to no terms
\* (empty or whitespace only) and whenever the candidate's title plus
\* description tokenizes to no terms, for every corpus (absent, one
\* candidate, two and more) and whatever the other argument is.
C16_NoTermsGiveZero ==
    Applied("_compute_bm25") =>
        /\ tokenize(probe.args.query) = <<>> => probe.result[1] = 0
        /\ tokenize(doc_text(probe.args.candidate)) = <<>>
              => probe.result[1] = 0

\* a whitespace-only query against a document that has terms, one candidate
\* in the corpus
C16_Witness ==
    /\ Applied("_compute_bm25")
    /\ probe.args.query = <<" ">>
    /\ DocTermSet # {}
    /\ probe.args.all_candidates # None
    /\ Len(probe.args.all_candidates[1]) = 1
    /\ probe.result[1] = 0

\* a document without terms in a corpus of three, against a query with terms
C16_WitnessEmptyDocument ==
    /\ Applied("_compute_bm25")
    /\ QueryTermSet # {}
    /\ tokenize(doc_text(probe.args.candidate)) = <<>>
    /\ probe.args.all_candidates # None
    /\ Len(probe.args.all_candidates[1]) = 3
    /\ probe.result[1] = 0

\* the number of probed corpus documents that hold the term at least once
DocumentFrequency(term) ==
    Cardinality({i \in 1..Len(probe.args.all_candidates) :
        LET c == probe.args.all_candidates[i]
        IN  term \in ToSet(tokenize(c.title))
                        \cup ToSet(tokenize(c.description))})

\* C17: for a fixed corpus and two query terms with document frequencies
\* df1 < df2 (a document counts once however often it holds the term),
\* the idf of the first term is strictly greater than the idf of the second.
C17_IdfStrictlyDecreasing ==
    Applied("_compute_idf") =>
        \A t1, t2 \in probe.args.query_terms :
            DocumentFrequency(t1) < DocumentFrequency(t2)
                => probe.result[1][t1] > probe.result[1][t2]

\* a corpus of three documents with terms of document frequency 0, 1, 2
\* and 3, one of them twice in a document
C17_Witness ==
    /\ Applied("_compute_idf")
    /\ Len(probe.args.all_candidates) = 3
    /\ probe.args.query_terms = IdfTerms
    /\ DocumentFrequency("zzz") = 0
    /\ DocumentFrequency("earbuds") = 1
    /\ DocumentFrequency("wireless") = 2
    /\ DocumentFrequency("headphones") = 3

\* a feature value within [0, 1]
InUnit(x) == x >= 0 /\ x <= SCALE

\* C18: for a valid candidate (price >= 0, rating in [0, 5], num_reviews
\* >= 0) the price, rating and popularity features lie in [0, 1], the price
\* feature is 1.0 when price <= 0 and the popularity feature is 0.0 when
\* num_reviews <= 0; without a corpus the text_match feature lies in [0, 1]
\* too.
C18_FeaturesInUnitInterval ==
    Applied("extract_features") =>
        LET c == probe.args.candidate
            f == probe.result[1]
        IN  (c.price >= 0 /\ c.rating >= 0 /\ c.rating <= MaxRating * 10
                /\ c.num_reviews >= 0) =>
               /\ InUnit(f.price) /\ InUnit(f.rating) /\ InUnit(f.popularity)
               /\ c.price <= 0 => f.price = SCALE
               /\ c.num_reviews <= 0 => f.popularity = 0
               /\ probe.args.all_candidates = None => InUnit(f.text_match)

\* a candidate priced above max_price with more reviews than max_reviews
\* and the top rating, without a corpus, the query matching in full
C18_Witness ==
    /\ Applied("extract_features")
    /\ probe.args.candidate.price > max_price
    /\ probe.args.candidate.num_reviews > max_reviews
    /\ probe.args.all_candidates = None
    /\ probe.result[1] = [text_match |-> SCALE, price |-> 0,
                          rating |-> SCALE, popularity |-> SCALE]

\* the documents of the batch the call was given
BatchDocs == Corpus(call.before)

\* C19: degenerate inputs never make rerank fail: for every batch (also
\* with some or all candidates without title and description, and with
\* identical documents), every query (also empty or whitespace only) and
\* every map of non-negative weights with a positive sum, rerank returns a
\* list of the batch's length and raises nothing.
C19_DegenerateInputsReturn ==
    (Called /\ ValidWeights(ActiveMap)) =>
        /\ call.status = "returned"
        /\ ~FeaturesRaise(call.before, call.query)
        /\ call.returned # None
        /\ Len(call.returned[1]) = Len(call.before)

\* a batch of documents without terms only, ranked for a query with terms
C19_Witness ==
    /\ Returned
    /\ ValidWeights(ActiveMap)
    /\ Len(call.before) = MaxBatch
    /\ \A i \in 1..Len(BatchDocs) : BatchDocs[i] = <<>>
    /\ tokenize(call.query) # <<>>

\* a batch of identical documents with terms, ranked for the empty query
C19_WitnessIdentical ==
    /\ Returned
    /\ ValidWeights(ActiveMap)
    /\ Len(call.before) = MaxBatch
    /\ \A i \in 1..Len(BatchDocs) :
          BatchDocs[i] = BatchDocs[1] /\ BatchDocs[i] # <<>>
    /\ call.query = <<>>

\* C20 as stated: the computed idf can be negative: there is a corpus size
\* N >= 2 and a document frequency df with N/2 < df <= N for which
\* ln((N - df + 0.5) / (df + 0.5) + 1) is below 0.
C20_IdfCanBeNegative ==
    Applied("_compute_idf") =>
        \E n \in 2..MaxCorpus : \E df \in 0..n :
            2 * df > n /\ idf_value(n, df) < 0

\* C20 as amended: the computed idf is never negative: for every corpus and
\* every query term, also one that occurs in more than half of the
\* documents or in all of them, the idf is above 0; and so it is for every
\* corpus size N from 2 to MaxCorpus and every df from 0 to N.
C20_IdfIsPositive ==
    /\ Applied("_compute_idf") =>
          \A term \in probe.args.query_terms : probe.result[1][term] > 0
    /\ \A n \in 2..MaxCorpus : \A df \in 0..n : idf_value(n, df) > 0

\* a term that occurs in every document of a corpus of three
C20_Witness ==
    /\ Applied("_compute_idf")
    /\ Len(probe.args.all_candidates) = 3
    /\ "headphones" \in probe.args.query_terms
    /\ DocumentFrequency("headphones") = 3
    /\ probe.result[1]["headphones"] > 0
    /\ probe.result[1]["headphones"] < 2000

\* the stepwise call and its position
TheCall == workers[Caller]

\* the BM25 column has been normalized
Normalized == TheCall.pc \in {"score", "sort", "return", "returned"}

\* how often the call has written the score of the candidate at position i
Writes(i) ==
    Cardinality({p \in 1..Len(TheCall.scored_candidates) :
                    TheCall.scored_candidates[p] = i})

\* C21: within one call no candidate's score is written and no text_match
\* is normalized until the raw features of every candidate of the batch
\* are extracted; after that every candidate has its score written exactly
\* once before the call returns.
C21_PhasesInOrder ==
    /\ (Normalized \/ TheCall.scored_candidates # <<>>) =>
          /\ TheCall.all_features # None
          /\ Len(TheCall.all_features[1]) = Len(candidates)
    /\ TheCall.scored_candidates # <<>> => Normalized
    /\ \A i \in 1..Len(candidates) :
          /\ Writes(i) <= 1
          /\ Writes(i) = 0 => candidates[i].score = None
          /\ Writes(i) = 1 => candidates[i].score # None
          /\ TheCall.pc \in {"sort", "return", "returned"} => Writes(i) = 1

\* the call has returned a full batch, each score written once
C21_Witness ==
    /\ TheCall.pc = "returned"
    /\ Len(candidates) = MaxBatch
    /\ \A i \in 1..Len(candidates) : Writes(i) = 1

\* the first pass is under way: some raw features extracted, not all, and
\* no score written
C21_WitnessFirstPass ==
    /\ TheCall.pc = "extract"
    /\ Len(TheCall.all_features[1]) = 2
    /\ Len(candidates) = MaxBatch
    /\ \A i \in 1..Len(candidates) : candidates[i].score = None

\* the raw lexical scores of the batch the call was given
RawTextMatch ==
    TextMatchColumn(ExtractAll(call.before, call.query, call.before))

\* every candidate of the batch has the same raw lexical score
EqualRawTextMatch ==
    \A i, j \in 1..Len(RawTextMatch) : RawTextMatch[i] = RawTextMatch[j]

\* the queries that may stand for the query of the call without a change
\* of the raw scores' equality: every query for a batch of one candidate,
\* the queries without terms for a query without terms
QueriesAlike ==
    {q \in Queries :
        Len(call.before) = 1
            \/ (tokenize(call.query) = <<>> /\ tokenize(q) = <<>>)}

\* the blend of candidate c's price, rating and popularity features, with
\* text_match at 0.5
BlendWithoutQuery(m, c) ==
    Blend(m, [text_match |-> SCALE \div 2,
              price      |-> normalize_price(c.price),
              rating     |-> normalize_rating(c.rating),
              popularity |-> normalize_popularity(c.num_reviews)])

\* C22: when every candidate of the batch has the same raw lexical score,
\* every normalized text_match is 0.5; this is so for a batch of one
\* candidate and for every batch ranked with an empty or whitespace-only
\* query, and then the scores and the order are the same for every such
\* query and come from price, rating and popularity alone.
C22_EqualLexicalScoresDropQuery ==
    Returned =>
        /\ EqualRawTextMatch =>
              \A i \in 1..Len(candidates) :
                  2 * call.all_features[1][i].text_match = SCALE
        /\ (Len(call.before) = 1 \/ tokenize(call.query) = <<>>) =>
              /\ EqualRawTextMatch
              /\ \A i \in 1..Len(candidates) :
                    ScoreOf(i) = BlendWithoutQuery(ActiveMap, candidates[i])
              /\ \A q \in QueriesAlike :
                    LET other == rerank(call.before, q, call.weights,
                                        default_weights)
                    IN  /\ other.status = "returned"
                        /\ other.candidates = candidates
                        /\ other.returned = call.returned

\* a batch of one candidate whose text holds every term of the query, with
\* a weight on text_match
C22_Witness ==
    /\ Returned
    /\ Len(call.before) = 1
    /\ RawTextMatch = <<SCALE>>
    /\ WeightOf(ActiveMap, "text_match") > 0
    /\ ScoreOf(1) > 0

\* a full batch ranked with a whitespace-only query comes back reordered
C22_WitnessWhitespace ==
    /\ Returned
    /\ Len(call.before) = MaxBatch
    /\ call.query = <<" ">>
    /\ ReturnedList[1] # 1

\* C23: a rerank call changes nothing but the score fields of the
\* candidates of its batch: the caller's weight map, the ranker's default
\* map, every other field of every candidate and the order and content of
\* the input list are after the call what they were before, when the call
\* returns and when it fails.
C23_OnlyScoresChange ==
    Applied("rerank") =>
        LET before == probe.args
            after  == probe.result[1]
        IN  /\ after.status \in {"returned", "ZeroDivisionError"}
            /\ after.weights = before.weights
            /\ after.default_weights = before.default_weights
            /\ Len(after.candidates) = Len(before.candidates)
            /\ \A i \in 1..Len(before.candidates) :
                  LET b == before.candidates[i]
                      a == after.candidates[i]
                  IN  /\ a.id = b.id
                      /\ a.title = b.title
                      /\ a.description = b.description
                      /\ a.category = b.category
                      /\ a.price = b.price
                      /\ a.rating = b.rating
                      /\ a.num_reviews = b.num_reviews

\* a call with a caller's map that returns the full batch reordered, every
\* score written
C23_Witness ==
    /\ Applied("rerank")
    /\ probe.result[1].status = "returned"
    /\ probe.args.weights # None
    /\ Len(probe.args.candidates) = MaxBatch
    /\ probe.result[1].returned[1][1] # 1
    /\ \A i \in 1..MaxBatch : probe.result[1].candidates[i].score # None

\* a call on a full batch that fails while normalizing the weights
C23_WitnessFailure ==
    /\ Applied("rerank")
    /\ probe.result[1].status = "ZeroDivisionError"
    /\ Len(probe.args.candidates) = MaxBatch

====
